---- MODULE Spec2Model ----
(***************************************************************************)
(* Model of main.py: the text pipeline of process_pdf (de-hyphenation,     *)
(* whitespace normalisation, splitting into school blocks, pairing of the  *)
(* blocks) and the field extractor extract_school_data.                    *)
(*                                                                         *)
(* A text is a sequence of one-character strings; positions are 1-based,   *)
(* and "position p" of a regular expression is the gap before t[p], so the *)
(* positions of a text t run from 1 to Len(t) + 1.                         *)
(***************************************************************************)
EXTENDS Integers, Sequences, FiniteSets, TLC

VARIABLES
    raw_text,       \* process_pdf: the text of the pages, as joined on line 99
    full_text,      \* process_pdf: the text being processed
    school_blocks,  \* process_pdf: the pieces of the split, the first dropped
    i,              \* process_pdf: the loop index of line 109
    schools,        \* process_pdf: the records built so far
    block,          \* the caller's argument of extract_school_data
    text_block,     \* extract_school_data: its argument
    data,           \* extract_school_data: the record, a list of key/value
    fidx,           \* extract_school_data: the field of fields.items() next
    value,          \* extract_school_data: a captured value of the Phone field
    caller,         \* who called extract_school_data
    pc              \* the place control is at

vars == <<raw_text, full_text, school_blocks, i, schools, block, text_block,
          data, fidx, value, caller, pc>>

(***************************************************************************)
(* Character classes of Python's re module for str patterns, on ASCII      *)
(* texts; of the whitespace \s matches, the vertical tab and the separator *)
(* controls 0x1c-0x1f are left out.                                        *)
(***************************************************************************)
UpperSeq == <<"A","B","C","D","E","F","G","H","I","J","K","L","M",
              "N","O","P","Q","R","S","T","U","V","W","X","Y","Z">>

LowerSeq == <<"a","b","c","d","e","f","g","h","i","j","k","l","m",
              "n","o","p","q","r","s","t","u","v","w","x","y","z">>

UpperChars == {UpperSeq[k] : k \in 1..Len(UpperSeq)}

LowerChars == {LowerSeq[k] : k \in 1..Len(LowerSeq)}

DigitChars == {"0","1","2","3","4","5","6","7","8","9"}

SpaceChars == {" ", "\n", "\t", "\r", "\f"}

WordChars == UpperChars \cup LowerChars \cup DigitChars \cup {"_"}

\* \w
IsWord(c) == c \in WordChars

\* \s
IsSpace(c) == c \in SpaceChars

\* \d
IsDigit(c) == c \in DigitChars

\* case folding used by re.IGNORECASE
LowerOf ==
    [c \in UpperChars |-> LowerSeq[CHOOSE k \in 1..Len(UpperSeq) : UpperSeq[k] = c]]

ToLower(c) == IF c \in UpperChars THEN LowerOf[c] ELSE c

\* \b at position p of t
WordBoundary(t, p) ==
    LET before == p > 1 /\ IsWord(t[p - 1])
        after  == p <= Len(t) /\ IsWord(t[p])
    IN  before # after

\* the literal lit matches t at position p
MatchLit(t, p, lit) ==
    /\ p + Len(lit) - 1 <= Len(t)
    /\ \A k \in 1..Len(lit) : t[p + k - 1] = lit[k]

\* the literal lit matches t at position p under re.IGNORECASE
MatchLitIC(t, p, lit) ==
    /\ p + Len(lit) - 1 <= Len(t)
    /\ \A k \in 1..Len(lit) : ToLower(t[p + k - 1]) = ToLower(lit[k])

SetMin(S) == CHOOSE x \in S : \A y \in S : x <= y

SetMax(S) == CHOOSE x \in S : \A y \in S : y <= x

\* t[a..b-1], Python's t[a:b] in 1-based positions
Slice(t, a, b) == IF b <= a THEN <<>> ELSE SubSeq(t, a, b - 1)

\* first position >= p of t holding a non-space character (Len(t)+1 if none)
RECURSIVE SkipSpaces(_, _)
SkipSpaces(t, p) ==
    IF p <= Len(t) /\ IsSpace(t[p]) THEN SkipSpaces(t, p + 1) ELSE p

\* str.strip()
RECURSIVE RStrip(_)
RStrip(t) ==
    IF Len(t) > 0 /\ IsSpace(t[Len(t)]) THEN RStrip(SubSeq(t, 1, Len(t) - 1))
    ELSE t

Strip(t) == RStrip(Slice(t, SkipSpaces(t, 1), Len(t) + 1))

\* concatenation of a sequence of texts
RECURSIVE Concat(_)
Concat(ws) == IF ws = <<>> THEN <<>> ELSE Head(ws) \o Concat(Tail(ws))

(***************************************************************************)
(* process_pdf, pre-processing.                                            *)
(***************************************************************************)
\* HyphenMatchEnd with [a-z] for the second group
HyphenMatchEndLower(t, p) ==
    IF p + 1 <= Len(t) /\ IsWord(t[p]) /\ t[p + 1] = "-"
    THEN LET q == SkipSpaces(t, p + 2)
         IN  IF /\ q <= Len(t)
                /\ t[q] \in LowerChars
                /\ \E k \in (p + 2)..(q - 1) : t[k] = "\n"
             THEN q ELSE 0
    ELSE 0

\* (\w)-\s*\n\s*(\w) tried at position p: the position of the closing word
\* character, 0 when the pattern does not match at p.  The whitespace the
\* pattern consumes is the whole run after the hyphen (a word character must
\* follow it) and has to hold a line feed.
HyphenMatchEnd(t, p) ==
    IF p + 1 <= Len(t) /\ IsWord(t[p]) /\ t[p + 1] = "-"
    THEN LET q == SkipSpaces(t, p + 2)
         IN  IF /\ q <= Len(t)
                /\ IsWord(t[q])
                /\ \E k \in (p + 2)..(q - 1) : t[k] = "\n"
             THEN q ELSE 0
    ELSE 0

\* re.sub(r'(\w)-\s*\n\s*(\w)', r'\1\2', t) scanning from position p: the
\* text up to the leftmost match is kept, the match gives its two groups,
\* and the scan goes on after the match
RECURSIVE SubHyphen(_, _)
SubHyphen(t, p) ==
    LET starts == {s \in p..Len(t) : HyphenMatchEnd(t, s) > 0}
    IN  IF starts = {} THEN Slice(t, p, Len(t) + 1)
        ELSE LET s == SetMin(starts)
                 q == HyphenMatchEnd(t, s)
             IN  Slice(t, p, s) \o <<t[s], t[q]>> \o SubHyphen(t, q + 1)

FixHyphenatedWords(t) == SubHyphen(t, 1)

\* re.sub(r'\s+', ' ', t) scanning from position p: the leftmost match is
\* the whole run of whitespace that starts at the first whitespace character
RECURSIVE SubSpaces(_, _)
SubSpaces(t, p) ==
    LET starts == {s \in p..Len(t) : IsSpace(t[s])}
    IN  IF starts = {} THEN Slice(t, p, Len(t) + 1)
        ELSE LET s == SetMin(starts)
             IN  Slice(t, p, s) \o <<" ">> \o SubSpaces(t, SkipSpaces(t, s))

NormalizeWhitespace(t) == SubSpaces(t, 1)

(***************************************************************************)
(* process_pdf, splitting into school blocks.                              *)
(***************************************************************************)
KwSchool     == <<"S","c","h","o","o","l">>
KwAcademy    == <<"A","c","a","d","e","m","y">>
KwSch        == <<"S","c","h",".">>
KwHigh       == <<"H","i","g","h">>
KwCentre     == <<"C","e","n","t","r","e">>
KwFoundation == <<"F","o","u","n","d","a","t","i","o","n">>

\* (?:School|Academy|Sch\.|High|Centre|Foundation)
Keywords == <<KwSchool, KwAcademy, KwSch, KwHigh, KwCentre, KwFoundation>>

NameClass == UpperChars \cup LowerChars \cup SpaceChars \cup {",", "&", ".", "'", "-"}

\* [a-zA-Z\s,&\.\'-]
InNameClass(c) == c \in NameClass

\* the run lengths k >= 1 of [a-zA-Z\s,&\.\'-]+ after the capital at p for
\* which a keyword and a word boundary follow
AnchorRuns(t, p) ==
    IF p <= Len(t) /\ WordBoundary(t, p) /\ t[p] \in UpperChars
    THEN {k \in 1..(Len(t) - p) :
            /\ \A j \in 1..k : InNameClass(t[p + j])
            /\ \E n \in 1..Len(Keywords) :
                 /\ MatchLit(t, p + k + 1, Keywords[n])
                 /\ WordBoundary(t, p + k + 1 + Len(Keywords[n]))}
    ELSE {}

\* the lookahead (?=\b[A-Z][a-zA-Z\s,&\.\'-]+(?:School|...)\b) holds at p
AnchorAhead(t, p) == AnchorRuns(t, p) # {}

\* re.split on the zero-width lookahead: one piece ends at every position
\* where the lookahead holds (an empty match, after which the search must
\* advance), the rest of the text is the last piece
RECURSIVE SplitFrom(_, _, _)
SplitFrom(t, last, p) ==
    LET found == {s \in p..Len(t) : AnchorAhead(t, s)}
    IN  IF found = {} THEN <<Slice(t, last, Len(t) + 1)>>
        ELSE LET s == SetMin(found)
             IN  <<Slice(t, last, s)>> \o SplitFrom(t, s, s + 1)

ReSplit(t) == SplitFrom(t, 1, 1)

\* re.split(...)[1:]
SchoolBlocks(t) == Tail(ReSplit(t))

(***************************************************************************)
(* extract_school_data: the record, the name and the labelled fields.      *)
(***************************************************************************)
NA == <<"N","A">>

\* InitialData with the key County left out
InitialDataNoCounty ==
    << [key |-> "School Name", val |-> NA],
       [key |-> "Location",    val |-> NA],
       [key |-> "Address",     val |-> NA],
       [key |-> "City/ Town",  val |-> NA],
       [key |-> "Country",     val |-> NA],
       [key |-> "Website",     val |-> NA],
       [key |-> "Phone",       val |-> NA],
       [key |-> "Email",       val |-> NA],
       [key |-> "Fax",         val |-> NA] >>

\* the literal dict of lines 25-36: an insertion-ordered list of key/value
InitialData ==
    << [key |-> "School Name", val |-> NA],
       [key |-> "Location",    val |-> NA],
       [key |-> "Address",     val |-> NA],
       [key |-> "City/ Town",  val |-> NA],
       [key |-> "County",      val |-> NA],
       [key |-> "Country",     val |-> NA],
       [key |-> "Website",     val |-> NA],
       [key |-> "Phone",       val |-> NA],
       [key |-> "Email",       val |-> NA],
       [key |-> "Fax",         val |-> NA] >>

\* d[k] = v on a Python dict: an existing key keeps its place, a new key
\* goes to the end
DictSet(d, k, v) ==
    IF \E n \in 1..Len(d) : d[n].key = k
    THEN [n \in 1..Len(d) |-> IF d[n].key = k THEN [key |-> k, val |-> v] ELSE d[n]]
    ELSE Append(d, [key |-> k, val |-> v])

\* d[k] for a key the dict holds
DictGet(d, k) == d[CHOOSE n \in 1..Len(d) : d[n].key = k].val

\* list(d.keys())
DictKeys(d) == [n \in 1..Len(d) |-> d[n].key]

LblLocation == <<"L","o","c","a","t","i","o","n",":">>
LblAddress  == <<"A","d","d","r","e","s","s",":">>
LblCityTown == <<"C","i","t","y","/"," ","T","o","w","n",":">>
LblCounty   == <<"C","o","u","n","t","y",":">>
LblCountry  == <<"C","o","u","n","t","r","y",":">>
LblWebsite  == <<"W","e","b","s","i","t","e",":">>
LblPhone    == <<"P","h","o","n","e",":">>
LblEmail    == <<"E","m","a","i","l",":">>
LblFax      == <<"F","a","x",":">>

\* the alternatives of the lookahead of line 42, in order
NameAhead ==
    <<LblLocation, LblAddress, LblCityTown, LblCounty, LblCountry,
      LblWebsite, LblPhone, LblEmail, LblFax>>

\* the dict `fields` of lines 47-57 in insertion order: the key, the label
\* that opens the pattern and the labels of the pattern's lookahead
Fields ==
    << [key |-> "Location", label |-> LblLocation,
        ahead |-> <<LblAddress, LblCityTown, LblCounty, LblCountry,
                    LblWebsite, LblPhone, LblEmail, LblFax>>],
       [key |-> "Address", label |-> LblAddress,
        ahead |-> <<LblLocation, LblCityTown, LblCounty, LblCountry,
                    LblWebsite, LblPhone, LblEmail, LblFax>>],
       [key |-> "City/ Town", label |-> LblCityTown,
        ahead |-> <<LblLocation, LblAddress, LblCounty, LblCountry,
                    LblWebsite, LblPhone, LblEmail, LblFax>>],
       [key |-> "County", label |-> LblCounty,
        ahead |-> <<LblLocation, LblAddress, LblCityTown, LblCountry,
                    LblWebsite, LblPhone, LblEmail, LblFax>>],
       [key |-> "Country", label |-> LblCountry,
        ahead |-> <<LblLocation, LblAddress, LblCityTown, LblCounty,
                    LblWebsite, LblPhone, LblEmail, LblFax>>],
       [key |-> "Website", label |-> LblWebsite,
        ahead |-> <<LblLocation, LblAddress, LblCityTown, LblCounty,
                    LblCountry, LblPhone, LblEmail, LblFax>>],
       [key |-> "Phone", label |-> LblPhone,
        ahead |-> <<LblLocation, LblAddress, LblCityTown, LblCounty,
                    LblCountry, LblWebsite, LblEmail, LblFax>>],
       [key |-> "Email", label |-> LblEmail,
        ahead |-> <<LblLocation, LblAddress, LblCityTown, LblCounty,
                    LblCountry, LblWebsite, LblPhone, LblFax>>],
       [key |-> "Fax", label |-> LblFax,
        ahead |-> <<LblLocation, LblAddress, LblCityTown, LblCounty,
                    LblCountry, LblWebsite, LblPhone, LblEmail>>] >>

\* the list `columns` of save_to_excel, lines 125-128
Columns ==
    <<"School Name", "Location", "Address", "City/ Town", "County", "Country",
      "Website", "Phone", "Email", "Fax">>

\* $ at position p (no re.MULTILINE): the end of the text, or just before a
\* line feed that ends it
AtEnd(t, p) == p = Len(t) + 1 \/ (p = Len(t) /\ t[p] = "\n")

\* the lookahead (?=l1|l2|...|$) at position p; ic is re.IGNORECASE
AheadHolds(t, p, labels, ic) ==
    \/ \E n \in 1..Len(labels) :
         IF ic THEN MatchLitIC(t, p, labels[n]) ELSE MatchLit(t, p, labels[n])
    \/ AtEnd(t, p)

\* LazyEnd with the greedy (.*) for the lazy (.*?): the longest capture
GreedyEnd(t, c, labels, ic) ==
    LET ends == {e \in c..(Len(t) + 1) :
                   /\ AheadHolds(t, e, labels, ic)
                   /\ \A k \in c..(e - 1) : t[k] # "\n"}
    IN  IF ends = {} THEN 0 ELSE SetMax(ends)

\* (.*?)(?=...) from position c: the end of the shortest capture, the first
\* position e >= c where the lookahead holds with no line feed in t[c..e-1]
\* (the dot does not match one); 0 when there is none
LazyEnd(t, c, labels, ic) ==
    LET ends == {e \in c..(Len(t) + 1) :
                   /\ AheadHolds(t, e, labels, ic)
                   /\ \A k \in c..(e - 1) : t[k] # "\n"}
    IN  IF ends = {} THEN 0 ELSE SetMin(ends)

\* SchoolName with re.IGNORECASE given to re.match
SchoolNameAnyCase(t) ==
    LET e == LazyEnd(t, 1, NameAhead, TRUE)
    IN  IF e = 0 THEN NA ELSE Strip(Slice(t, 1, e))

\* re.match(r'^(.*?)(?=Location:|...|$)', t).group(1).strip() of lines
\* 42-44; NA when there is no match and the key keeps its initial value
SchoolName(t) ==
    LET e == LazyEnd(t, 1, NameAhead, FALSE)
    IN  IF e = 0 THEN NA ELSE Strip(Slice(t, 1, e))

\* the pattern of field f tried at position s under re.IGNORECASE: the span
\* <<c, e>> of group 1, <<0, 0>> when it does not match.  \s* takes the whole
\* run of whitespace after the label: giving some back never helps the rest.
FieldMatchAt(t, s, f) ==
    IF MatchLitIC(t, s, f.label)
    THEN LET c == SkipSpaces(t, s + Len(f.label))
             e == LazyEnd(t, c, f.ahead, TRUE)
         IN  IF e = 0 THEN <<0, 0>> ELSE <<c, e>>
    ELSE <<0, 0>>

\* re.search(pattern, t, re.IGNORECASE): group 1 of the leftmost match
FieldSearch(t, f) ==
    LET hits == {s \in 1..Len(t) : FieldMatchAt(t, s, f) # <<0, 0>>}
    IN  IF hits = {} THEN <<0, 0>>
        ELSE FieldMatchAt(t, SetMin(hits), f)

\* match.group(1).strip() of line 62; the match must exist
CapturedValue(t, f) ==
    LET m == FieldSearch(t, f) IN Strip(Slice(t, m[1], m[2]))

(***************************************************************************)
(* extract_school_data: the cleaning rules of lines 64-85.                 *)
(***************************************************************************)
\* \d{n} at position p
DigitsAt(v, p, n) ==
    /\ p + n - 1 <= Len(v)
    /\ \A k \in 0..(n - 1) : IsDigit(v[p + k])

\* [seps]? at position p, greedy: the position after it.  A separator is no
\* digit, so giving it back never lets the digits that follow match.
OptSep(v, p, seps) == IF p <= Len(v) /\ v[p] \in seps THEN p + 1 ELSE p

\* \d{3,4}\b at position p, greedy: the end of the match, 0 when none
LastGroupEnd(v, p) ==
    IF DigitsAt(v, p, 4) /\ WordBoundary(v, p + 4) THEN p + 4
    ELSE IF DigitsAt(v, p, 3) /\ WordBoundary(v, p + 3) THEN p + 3
    ELSE 0

\* \b\d{3}[-.]?\d{3}[-.]?\d{3,4}\b at position p: the end, 0 when none
Alt1End(v, p) ==
    IF WordBoundary(v, p) /\ DigitsAt(v, p, 3)
    THEN LET a == OptSep(v, p + 3, {"-", "."})
         IN  IF DigitsAt(v, a, 3)
             THEN LastGroupEnd(v, OptSep(v, a + 3, {"-", "."}))
             ELSE 0
    ELSE 0

\* \b0\d{x}[- ]?\d{y}[- ]?\d{z}\b at position p for fixed group lengths
Alt2Try(v, p, x, y, z) ==
    IF /\ WordBoundary(v, p)
       /\ p <= Len(v)
       /\ v[p] = "0"
       /\ DigitsAt(v, p + 1, x)
    THEN LET a == OptSep(v, p + 1 + x, {"-", " "})
         IN  IF DigitsAt(v, a, y)
             THEN LET b == OptSep(v, a + y, {"-", " "})
                  IN  IF DigitsAt(v, b, z) /\ WordBoundary(v, b + z)
                      THEN b + z ELSE 0
             ELSE 0
    ELSE 0

\* the group lengths of \d{2,3} \d{3,4} \d{3,4} in the order in which the
\* greedy quantifiers and their backtracking try them
Alt2Order ==
    << <<3,4,4>>, <<3,4,3>>, <<3,3,4>>, <<3,3,3>>,
       <<2,4,4>>, <<2,4,3>>, <<2,3,4>>, <<2,3,3>> >>

\* \b0\d{2,3}[- ]?\d{3,4}[- ]?\d{3,4}\b at position p: the end of the first
\* alternative of Alt2Order that matches, 0 when none does
RECURSIVE Alt2From(_, _, _)
Alt2From(v, p, n) ==
    IF n > Len(Alt2Order) THEN 0
    ELSE LET g == Alt2Order[n]
             e == Alt2Try(v, p, g[1], g[2], g[3])
         IN  IF e > 0 THEN e ELSE Alt2From(v, p, n + 1)

Alt2End(v, p) == Alt2From(v, p, 1)

\* the phone pattern of line 66 at position p: the first alternative wins
PhoneMatchEnd(v, p) ==
    IF Alt1End(v, p) > 0 THEN Alt1End(v, p) ELSE Alt2End(v, p)

\* re.findall of the phone pattern, scanning from position p
RECURSIVE FindPhones(_, _)
FindPhones(v, p) ==
    LET starts == {s \in p..Len(v) : PhoneMatchEnd(v, s) > 0}
    IN  IF starts = {} THEN <<>>
        ELSE LET s == SetMin(starts)
                 e == PhoneMatchEnd(v, s)
             IN  <<Slice(v, s, e)>> \o FindPhones(v, e)

\* re.sub(r'[^\d]', '', phone)
DigitsOnly(phone) == SelectSeq(phone, IsDigit)

Prefix254 == <<"2","5","4">>

\* CleanPhone without the branch of lines 70-71
CleanPhoneNoTrunk(phone) ==
    LET cleaned == DigitsOnly(phone)
    IN  IF Len(cleaned) = 12 /\ MatchLit(cleaned, 1, Prefix254)
        THEN <<"0">> \o Slice(cleaned, 4, Len(cleaned) + 1)
        ELSE cleaned

\* lines 69-73: the cleaned form of one matched phone
CleanPhone(phone) ==
    LET cleaned == DigitsOnly(phone)
    IN  IF Len(cleaned) = 9 /\ cleaned[1] \in {"2","3","4","5","6","7","8","9"}
        THEN <<"0">> \o cleaned
        ELSE IF Len(cleaned) = 12 /\ MatchLit(cleaned, 1, Prefix254)
        THEN <<"0">> \o Slice(cleaned, 4, Len(cleaned) + 1)
        ELSE cleaned

\* cleaned_phones of lines 67-74
CleanedPhones(v) ==
    LET phones == FindPhones(v, 1)
    IN  [n \in 1..Len(phones) |-> CleanPhone(phones[n])]

LocalClass == UpperChars \cup LowerChars \cup DigitChars \cup {".", "_", "%", "+", "-"}

DomainClass == UpperChars \cup LowerChars \cup DigitChars \cup {".", "-"}

TldClass == UpperChars \cup LowerChars \cup {"|"}

\* [A-Za-z0-9._%+-]
InLocalClass(c) == c \in LocalClass

\* [A-Za-z0-9.-]
InDomainClass(c) == c \in DomainClass

\* [A-Z|a-z]
InTldClass(c) == c \in TldClass

\* first position >= p of v holding no character of the local-part class
SkipLocal(v, p) ==
    SetMin({q \in p..Len(v) : ~InLocalClass(v[q])} \cup {Len(v) + 1})

\* [A-Z|a-z]{2,}\b at position p, greedy: the ends that match
TldEnds(v, p) ==
    {e \in (p + 2)..(Len(v) + 1) :
        /\ \A k \in p..(e - 1) : InTldClass(v[k])
        /\ WordBoundary(v, e)}

\* the positions of the dot that closes [A-Za-z0-9.-]+ for which the rest of
\* the pattern matches, the domain starting at position d
DomainDots(v, d) ==
    {x \in (d + 1)..Len(v) :
        /\ \A k \in d..(x - 1) : InDomainClass(v[k])
        /\ v[x] = "."
        /\ TldEnds(v, x + 1) # {}}

\* the email pattern of line 78 at position p: the end, 0 when none.  The
\* local part is the whole run up to the @ (the class does not hold @); the
\* greedy domain takes the last dot that works, the greedy top-level label
\* the longest run that ends on a word boundary.
EmailMatchEnd(v, p) ==
    IF p <= Len(v) /\ WordBoundary(v, p) /\ InLocalClass(v[p])
    THEN LET q == SkipLocal(v, p)
         IN  IF q <= Len(v) /\ v[q] = "@" /\ DomainDots(v, q + 1) # {}
             THEN SetMax(TldEnds(v, SetMax(DomainDots(v, q + 1)) + 1))
             ELSE 0
    ELSE 0

\* re.findall of the email pattern, scanning from position p
RECURSIVE FindEmails(_, _)
FindEmails(v, p) ==
    LET starts == {s \in p..Len(v) : EmailMatchEnd(v, s) > 0}
    IN  IF starts = {} THEN <<>>
        ELSE LET s == SetMin(starts)
                 e == EmailMatchEnd(v, s)
             IN  <<Slice(v, s, e)>> \o FindEmails(v, e)

SchemeHttp  == <<"h","t","t","p",":","/","/">>
SchemeHttps == <<"h","t","t","p","s",":","/","/">>
PrefixWww   == <<"w","w","w",".">>

\* first position >= p of v holding whitespace or a comma
SkipUrl(v, p) ==
    SetMin({q \in p..Len(v) : IsSpace(v[q]) \/ v[q] = ","} \cup {Len(v) + 1})

\* (?:https?://|www\.)[^\s,]+ at position p: the end, 0 when none
WebsiteMatchEnd(v, p) ==
    LET body == IF MatchLit(v, p, SchemeHttps) THEN p + Len(SchemeHttps)
                ELSE IF MatchLit(v, p, SchemeHttp) THEN p + Len(SchemeHttp)
                ELSE IF MatchLit(v, p, PrefixWww) THEN p + Len(PrefixWww)
                ELSE 0
    IN  IF body > 0 /\ SkipUrl(v, body) > body THEN SkipUrl(v, body) ELSE 0

\* re.findall of the website pattern, scanning from position p
RECURSIVE FindWebsites(_, _)
FindWebsites(v, p) ==
    LET starts == {s \in p..Len(v) : WebsiteMatchEnd(v, s) > 0}
    IN  IF starts = {} THEN <<>>
        ELSE LET s == SetMin(starts)
                 e == WebsiteMatchEnd(v, s)
             IN  <<Slice(v, s, e)>> \o FindWebsites(v, e)

\* set(xs)
ToSet(xs) == {xs[n] : n \in 1..Len(xs)}

CommaSpace == <<",", " ">>

\* ', '.join(S) for a Python set S: the iteration order of a set of strings
\* is not fixed, so every order of the elements is a possible result
RECURSIVE Joins(_)
Joins(S) ==
    IF S = {} THEN {<<>>}
    ELSE IF Cardinality(S) = 1 THEN S
    ELSE UNION {{x \o CommaSpace \o r : r \in Joins(S \ {x})} : x \in S}

\* ', '.join(set(xs)) if xs else 'NA'
JoinedOrNA(xs) == IF xs = <<>> THEN {NA} ELSE Joins(ToSet(xs))

\* StoredValues without the test of line 63
StoredValuesUnguarded(t, f) ==
    IF FieldSearch(t, f) = <<0, 0>> THEN {}
    ELSE LET got == CapturedValue(t, f)
         IN  IF f.key = "Phone" THEN JoinedOrNA(CleanedPhones(got))
             ELSE IF f.key = "Email" THEN JoinedOrNA(FindEmails(got, 1))
             ELSE IF f.key = "Website" THEN JoinedOrNA(FindWebsites(got, 1))
             ELSE {got}

\* lines 61-85 for field f: the values the loop body may store under the
\* field's key; empty when it stores nothing (no match, or an empty value)
StoredValues(t, f) ==
    IF FieldSearch(t, f) = <<0, 0>> THEN {}
    ELSE LET got == CapturedValue(t, f)
         IN  IF got = <<>> THEN {}
             ELSE IF f.key = "Phone" THEN JoinedOrNA(CleanedPhones(got))
             ELSE IF f.key = "Email" THEN JoinedOrNA(FindEmails(got, 1))
             ELSE IF f.key = "Website" THEN JoinedOrNA(FindWebsites(got, 1))
             ELSE {got}

(***************************************************************************)
(* Inputs.                                                                 *)
(***************************************************************************)
\* number of words of a generated text of the pipeline
MaxSegWords == 4

\* number of tokens of a generated span of the extractor
MaxTokens == 3

\* number of parts of a generated phone value
MaxPhoneParts == 5

\* number of pieces of a generated text of the pre-processing
MaxPieces == 4

\* the texts made of at most n words of W
TextsOf(W, n) == UNION {{Concat(ws) : ws \in [1..k -> W]} : k \in 0..n}

\* the end-to-end text of the specification's scenario
EndToEndText ==
    <<"A","l","p","h","a"," ","B","o","y","s"," ","H","i","g","h"," ","S",
      "c","h","o","o","l"," ","L","o","c","a","t","i","o","n",":"," ","K",
      "a","s","a","r","a","n","i"," ","P","h","o","n","e",":"," ","0","7",
      "1","2","3","4","5","6","7","8"," ","B","e","t","a"," ","G","i","r",
      "l","s"," ","A","c","a","d","e","m","y"," ","P","h","o","n","e",":",
      " ","7","1","2","-","3","4","5","-","6","7","8">>

\* two schools, each with one capital letter in its name
TwoSchoolsText ==
    <<"S","u","n","s","h","i","n","e"," ","A","c","a","d","e","m","y"," ",
      "P","h","o","n","e",":"," ","7","1","2","3","4","5","6","7","8"," ",
      "M","o","o","n","l","i","g","h","t"," ","A","c","a","d","e","m","y",
      " ","F","a","x",":"," ","5">>

\* a page header, a wrapped word and an abbreviated school
WrappedText ==
    <<"L","i","s","t"," ","o","f","\n","p","r","i","v","a","t","e"," ","s",
      "c","h","o","o","l","s"," ","S","u","n","s","h","i","n","e"," ","S",
      "e","c","-","\n","o","n","d","a","r","y"," ","S","c","h",".","N","a",
      "i","r","o","b","i"," ","F","a","x",":"," ","5">>

SegWords ==
    { <<"X","a"," ">>,
      <<"H","i","g","h"," ">>,
      <<"S","c","h","o","o","l"," ">>,
      <<"F","a","x",":"," ">>,
      <<"5"," ">>,
      <<"h","d","r"," "," ">> }

PipelineTexts ==
    TextsOf(SegWords, MaxSegWords) \cup {EndToEndText, TwoSchoolsText, WrappedText}

SpanAddress ==
    <<"A","d","d","r","e","s","s",":"," ","1","2","3"," ","M","a","i","n",
      " ","S","t"," ","C","i","t","y","/"," ","T","o","w","n",":"," ","N",
      "a","i","r","o","b","i">>

SpanFax ==
    <<"F","a","x",":"," ">>

SpanEmail ==
    <<"A","l","p","h","a"," ","E","m","a","i","l",":"," ","i","n","f","o",
      "@","s","c","h","o","o","l",".","a","c",".","k","e"," ","M","o","r",
      "e"," ","t","e","x","t">>

SpanWebsite ==
    <<"A","l","p","h","a"," ","W","e","b","s","i","t","e",":"," ","w","w",
      "w",".","a",".","k","e",","," ","h","t","t","p",":","/","/","a",".",
      "k","e","/","x"," ","a","n","d"," ","w","w","w",".","a",".","k","e">>

SpanTelephone ==
    <<"A","l","p","h","a"," ","A","c","a","d","e","m","y"," ","T","e","l",
      "e","p","h","o","n","e",":"," ","0","7","1","2","3","4","5","6","7",
      "8">>

SpanRelocation ==
    <<"A","c","m","e"," ","R","e","l","o","c","a","t","i","o","n",":"," ",
      "K","a","r","e","n"," ","C","o","u","n","t","y",":"," ","N","a","i",
      "r","o","b","i"," ","C","o","u","n","t","r","y",":"," ","K","e","n",
      "y","a">>

SpanPhones ==
    <<"B","e","t","a"," "," ","P","h","o","n","e",":"," ","7","1","2","-",
      "3","4","5","-","6","7","8"," ","/"," ","0","7","2","2"," ","3","4",
      "5"," ","6","7","8","	","E","m","a","i","l",":"," ","a","@","b",".",
      "k","e",","," ","A","@","b",".","k","e">>

SpanCalling ==
    <<"G","a","m","m","a"," ","P","h","o","n","e",":"," ","2","5","4","7",
      "1","2","3","4","5","6","7","8">>

ExtraSpans ==
    {SpanAddress, SpanFax, SpanEmail, SpanWebsite, SpanTelephone,
     SpanRelocation, SpanPhones, SpanCalling}

Tokens ==
    { <<"T","e","l","e">>,
      <<" ">>,
      LblLocation,
      LblFax,
      <<"f","a","x",":">>,
      LblPhone,
      <<"7","1","2","3","4","5","6","7","8">> }

ExtractSpans == TextsOf(Tokens, MaxTokens) \cup ExtraSpans

PhoneParts ==
    { <<"2","5","4">>,
      <<"7","1","2">>,
      <<"0","1","2">>,
      <<"-">>,
      <<" ">> }

PhoneNine     == <<"7","1","2","3","4","5","6","7","8">>
PhoneDashed   == <<"7","1","2","-","3","4","5","-","6","7","8">>
PhoneCalling  == <<"2","5","4","7","1","2","3","4","5","6","7","8">>
PhoneSpaced   == <<"0","7","1","2"," ","3","4","5"," ","6","7","8">>
PhoneDotted   == <<"7","1","2",".","3","4","5",".","6","7","8","9">>
PhonePlus     == <<"+","2","5","4","7","1","2","3","4","5","6","7","8">>
PhoneTwo      == <<"7","1","2","3","4","5","6","7","8"," ","/"," ",
                   "7","2","2","-","3","4","5","-","6","7","8">>
PhoneTwice    == <<"7","1","2","3","4","5","6","7","8",","," ",
                   "7","1","2","-","3","4","5","-","6","7","8">>
PhoneLandline == <<"0","2","0"," ","1","2","3","4"," ","5","6","7","8">>
PhoneWords    == <<"n","o","n","e">>

ExtraPhoneValues ==
    {PhoneNine, PhoneDashed, PhoneCalling, PhoneSpaced, PhoneDotted, PhonePlus,
     PhoneTwo, PhoneTwice, PhoneLandline, PhoneWords}

\* a captured value is stripped and not empty (lines 62-63)
PhoneValues ==
    {v \in TextsOf(PhoneParts, MaxPhoneParts) : v # <<>> /\ Strip(v) = v}
        \cup ExtraPhoneValues

Pieces ==
    { <<"a">>, <<"B">>, <<"1">>, <<"-">>, <<" ">>, <<"\n">>, <<"-","\n">> }

WrapLower   == <<"w","o","-","\n","r","d">>
WrapUpper   == <<"w","o","-","\n","R","d">>
WrapDigit   == <<"w","o","-","\n","1","x">>
WrapSpaced  == <<"w","o","-"," ","\n"," ","r","d">>
WrapChain   == <<"a","-","\n","b","-","\n","c">>
WrapNoWord  == <<"a"," ","-","\n","b">>
WrapNoBreak == <<"w","o","-"," ","r","d">>

ExtraHyphenTexts ==
    {WrapLower, WrapUpper, WrapDigit, WrapSpaced, WrapChain, WrapNoWord,
     WrapNoBreak}

HyphenTexts == TextsOf(Pieces, MaxPieces) \cup ExtraHyphenTexts

(***************************************************************************)
(* process_pdf, lines 101-116.                                             *)
(***************************************************************************)
\* line 102
FixHyphens ==
    /\ pc = "hyphens"
    /\ full_text' = FixHyphenatedWords(full_text)
    /\ pc' = "whitespace"
    /\ UNCHANGED <<raw_text, school_blocks, i, schools, block, text_block, data,
                   fidx, value, caller>>

\* line 103
Normalize ==
    /\ pc = "whitespace"
    /\ full_text' = NormalizeWhitespace(full_text)
    /\ pc' = "split"
    /\ UNCHANGED <<raw_text, school_blocks, i, schools, block, text_block, data,
                   fidx, value, caller>>

\* lines 106-108
Split ==
    /\ pc = "split"
    /\ school_blocks' = SchoolBlocks(full_text)
    /\ schools' = <<>>
    /\ i' = 0
    /\ pc' = "loop"
    /\ UNCHANGED <<raw_text, full_text, block, text_block, data, fidx, value,
                   caller>>

\* lines 110-113: the block of the iteration at index n (0-based)
BlockAt(blocks, n) ==
    IF n + 1 < Len(blocks) THEN blocks[n + 1] \o blocks[n + 2] ELSE blocks[n + 1]

\* lines 109-114, up to the call of extract_school_data
LoopCall ==
    /\ pc = "loop"
    /\ i < Len(school_blocks)
    /\ block' = BlockAt(school_blocks, i)
    /\ text_block' = block'
    /\ caller' = "process_pdf"
    /\ pc' = "extract"
    /\ UNCHANGED <<raw_text, full_text, school_blocks, i, schools, data, fidx,
                   value>>

\* line 116, the range of line 109 being exhausted
LoopExit ==
    /\ pc = "loop"
    /\ i >= Len(school_blocks)
    /\ pc' = "done"
    /\ UNCHANGED <<raw_text, full_text, school_blocks, i, schools, block,
                   text_block, data, fidx, value, caller>>

(***************************************************************************)
(* extract_school_data, lines 23-87.                                       *)
(***************************************************************************)
\* line 39
NormalizeBlock(t) == Strip(NormalizeWhitespace(t))

\* lines 25-44
ExtractBegin ==
    /\ pc = "extract"
    /\ text_block' = NormalizeBlock(text_block)
    /\ data' = DictSet(InitialData, "School Name", SchoolName(text_block'))
    /\ fidx' = 1
    /\ pc' = "fields"
    /\ UNCHANGED <<raw_text, full_text, school_blocks, i, schools, block, value,
                   caller>>

\* lines 59-85, one iteration of the loop over fields.items()
ExtractField ==
    /\ pc = "fields"
    /\ fidx <= Len(Fields)
    /\ LET stored == StoredValues(text_block, Fields[fidx])
       IN  IF stored = {} THEN data' = data
           ELSE \E v \in stored : data' = DictSet(data, Fields[fidx].key, v)
    /\ fidx' = fidx + 1
    /\ UNCHANGED <<raw_text, full_text, school_blocks, i, schools, block,
                   text_block, value, caller, pc>>

\* line 87, and line 114 when process_pdf is the caller
ExtractReturn ==
    /\ pc = "fields"
    /\ fidx > Len(Fields)
    /\ schools' = IF caller = "process_pdf" THEN Append(schools, data) ELSE schools
    /\ i' = IF caller = "process_pdf" THEN i + 2 ELSE i
    /\ pc' = IF caller = "process_pdf" THEN "loop" ELSE "returned"
    /\ UNCHANGED <<raw_text, full_text, school_blocks, block, text_block, data,
                   fidx, value, caller>>

\* lines 65-75 alone, on a captured value of the Phone field
PhoneClean ==
    /\ pc = "phone"
    /\ \E v \in JoinedOrNA(CleanedPhones(value)) :
         data' = DictSet(data, "Phone", v)
    /\ pc' = "cleaned"
    /\ UNCHANGED <<raw_text, full_text, school_blocks, i, schools, block,
                   text_block, fidx, value, caller>>

(***************************************************************************)
(* Specifications.                                                         *)
(***************************************************************************)
\* process_pdf on the text of a downloaded document
Init ==
    /\ raw_text \in PipelineTexts
    /\ full_text = raw_text
    /\ school_blocks = <<>>
    /\ i = 0
    /\ schools = <<>>
    /\ block = <<>>
    /\ text_block = <<>>
    /\ data = <<>>
    /\ fidx = 0
    /\ value = <<>>
    /\ caller = "main"
    /\ pc = "hyphens"

Next ==
    \/ FixHyphens
    \/ Normalize
    \/ Split
    \/ LoopCall
    \/ LoopExit
    \/ ExtractBegin
    \/ ExtractField
    \/ ExtractReturn

Spec == Init /\ [][Next]_vars

\* extract_school_data on one span
InitExtract ==
    /\ raw_text = <<>>
    /\ full_text = <<>>
    /\ school_blocks = <<>>
    /\ i = 0
    /\ schools = <<>>
    /\ block \in ExtractSpans
    /\ text_block = block
    /\ data = <<>>
    /\ fidx = 0
    /\ value = <<>>
    /\ caller = "main"
    /\ pc = "extract"

NextExtract ==
    \/ ExtractBegin
    \/ ExtractField
    \/ ExtractReturn

SpecExtract == InitExtract /\ [][NextExtract]_vars

\* the phone cleaning on one captured value
InitPhone ==
    /\ raw_text = <<>>
    /\ full_text = <<>>
    /\ school_blocks = <<>>
    /\ i = 0
    /\ schools = <<>>
    /\ block = <<>>
    /\ text_block = <<>>
    /\ data = InitialData
    /\ fidx = 0
    /\ value \in PhoneValues
    /\ caller = "main"
    /\ pc = "phone"

NextPhone == PhoneClean

SpecPhone == InitPhone /\ [][NextPhone]_vars

\* the pre-processing of process_pdf on one text
InitPre ==
    /\ raw_text \in HyphenTexts
    /\ full_text = raw_text
    /\ school_blocks = <<>>
    /\ i = 0
    /\ schools = <<>>
    /\ block = <<>>
    /\ text_block = <<>>
    /\ data = <<>>
    /\ fidx = 0
    /\ value = <<>>
    /\ caller = "main"
    /\ pc = "hyphens"

NextPre ==
    \/ FixHyphens
    \/ Normalize

SpecPre == InitPre /\ [][NextPre]_vars

(***************************************************************************)
(* Vocabulary of the properties.                                           *)
(***************************************************************************)
\* the positions at which lit occurs in t; ic ignores the letter case
Occurs(t, lit, ic) ==
    {p \in 1..Len(t) : IF ic THEN MatchLitIC(t, p, lit) ELSE MatchLit(t, p, lit)}

\* the indices in Fields of the labelled fields
Labelled == 1..Len(Fields)

\* the labelled fields that have no cleaning rule
Plain == {n \in Labelled : Fields[n].key \notin {"Phone", "Email", "Website"}}

\* the position after the first occurrence of the label of field n, in any
\* letter case
AfterLabel(t, n) ==
    SetMin(Occurs(t, Fields[n].label, TRUE)) + Len(Fields[n].label)

\* the first position >= c at which the label of a field other than n
\* occurs, in any letter case; the end of t when there is none
NextOtherLabel(t, c, n) ==
    SetMin({e \in c..Len(t) :
              \E m \in Labelled \ {n} : MatchLitIC(t, e, Fields[m].label)}
           \cup {Len(t) + 1})

\* the trimmed text between the first occurrence of the label of field n and
\* the next label of another field
Between(t, n) ==
    Strip(Slice(t, AfterLabel(t, n), NextOtherLabel(t, AfterLabel(t, n), n)))

\* some label occurs in t; ic ignores the letter case
SomeLabel(t, ic) == \E n \in Labelled : Occurs(t, Fields[n].label, ic) # {}

\* the first position at which a label occurs in t in its own letter case;
\* the end of t when there is none
FirstLabel(t) ==
    SetMin(UNION {Occurs(t, Fields[n].label, FALSE) : n \in Labelled}
           \cup {Len(t) + 1})

\* the value the record holds under key k
Val(k) == DictGet(data, k)

\* x is one of the elements of the ', '-joined list
IsElement(x, joined) ==
    \E p \in 1..Len(joined) :
        /\ MatchLit(joined, p, x)
        /\ p = 1 \/ (p > 2 /\ MatchLit(joined, p - 2, CommaSpace))
        /\ \/ p + Len(x) = Len(joined) + 1
           \/ MatchLit(joined, p + Len(x), CommaSpace)

\* the end of the anchor pattern matched at position p, its quantifier being
\* greedy: the longest run that a keyword follows
AnchorMatchEnd(t, p) ==
    LET k == SetMax(AnchorRuns(t, p))
        n == CHOOSE n \in 1..Len(Keywords) :
                 /\ MatchLit(t, p + k + 1, Keywords[n])
                 /\ WordBoundary(t, p + k + 1 + Len(Keywords[n]))
    IN  p + k + 1 + Len(Keywords[n])

\* the starts of the anchors a leftmost-first, non-overlapping scan finds
\* from position p on
RECURSIVE AnchorStarts(_, _)
AnchorStarts(t, p) ==
    LET found == {s \in p..Len(t) : AnchorAhead(t, s)}
    IN  IF found = {} THEN <<>>
        ELSE <<SetMin(found)>> \o AnchorStarts(t, AnchorMatchEnd(t, SetMin(found)))

\* the spans of the anchors: from one anchor to the next, the last to the end
AnchorSpans(t) ==
    LET st == AnchorStarts(t, 1)
    IN  [n \in 1..Len(st) |->
            Slice(t, st[n], IF n < Len(st) THEN st[n + 1] ELSE Len(t) + 1)]

\* the blocks process_pdf has passed to extract_school_data when it is done
PassedBlocks ==
    [n \in 1..Len(schools) |-> BlockAt(school_blocks, 2 * (n - 1))]

(***************************************************************************)
(* C1.                                                                     *)
(***************************************************************************)
\* C1: when process_pdf is done, the number of records equals the number of
\* entity-start anchors that a leftmost-first, non-overlapping scan of the
\* normalized text finds (zero anchors, zero records).
C1_RecordPerAnchor ==
    pc = "done" => Len(schools) = Len(AnchorStarts(full_text, 1))

(***************************************************************************)
(* C2.                                                                     *)
(***************************************************************************)
AlphaName == <<"A","l","p","h","a"," ","B","o","y","s"," ","H","i","g","h"," ",
               "S","c","h","o","o","l">>
BetaName  == <<"B","e","t","a"," ","G","i","r","l","s"," ","A","c","a","d","e",
               "m","y">>
Kasarani  == <<"K","a","s","a","r","a","n","i">>
Phone0712 == <<"0","7","1","2","3","4","5","6","7","8">>

AlphaRecord ==
    DictSet(DictSet(DictSet(InitialData, "School Name", AlphaName),
                    "Location", Kasarani), "Phone", Phone0712)

BetaRecord ==
    DictSet(DictSet(InitialData, "School Name", BetaName), "Phone", Phone0712)

\* C2: the end-to-end text yields exactly the records of Alpha Boys High
\* School and of Beta Girls Academy, in that order; and for every text the
\* blocks extracted are the spans that run from one anchor to the next, the
\* last one to the end of the text.
C2_SpanPerAnchor ==
    pc = "done" =>
        /\ raw_text = EndToEndText => schools = <<AlphaRecord, BetaRecord>>
        /\ PassedBlocks = AnchorSpans(full_text)

MainSt  == <<"1","2","3"," ","M","a","i","n"," ","S","t">>
Nairobi == <<"N","a","i","r","o","b","i">>

\* C4: a field without a cleaning rule whose label occurs holds the trimmed
\* text between the first occurrence of its label and the next label of
\* another field (or the end of the span), when that text is not empty; its
\* value never contains the label of another field; and the span "Address:
\* 123 Main St City/ Town: Nairobi" gives "123 Main St" and "Nairobi".
C4_LabelBoundary ==
    pc = "returned" =>
        /\ \A n \in Plain :
              /\ (/\ Occurs(text_block, Fields[n].label, TRUE) # {}
                  /\ Between(text_block, n) # <<>>)
                    => Val(Fields[n].key) = Between(text_block, n)
              /\ \A m \in Labelled \ {n} :
                    Occurs(Val(Fields[n].key), Fields[m].label, TRUE) = {}
        /\ block = SpanAddress =>
              Val("Address") = MainSt /\ Val("City/ Town") = Nairobi

\* the span of the example has been extracted and Address stops at the label
\* City/ Town:
C4_Witness ==
    /\ pc = "returned"
    /\ block = SpanAddress
    /\ Val("Address") = MainSt
    /\ Val("City/ Town") = Nairobi

(***************************************************************************)
(* C5.                                                                     *)
(***************************************************************************)
\* C5: a captured Phone value that is a number of exactly 12 digits starting
\* with 254 is stored with the 254 replaced by a single leading zero.
C5_CallingCode ==
    (/\ pc = "cleaned"
     /\ Len(value) = 12
     /\ \A k \in 1..Len(value) : IsDigit(value[k])
     /\ MatchLit(value, 1, Prefix254))
        => Val("Phone") = <<"0">> \o Slice(value, 4, Len(value) + 1)

(***************************************************************************)
(* C6.                                                                     *)
(***************************************************************************)
\* C6: every phone number matched in the captured value whose digits are
\* exactly 9 and start with a digit 2-9 is stored as those digits with one
\* leading zero; "712345678" and "712-345-678" both give "0712345678".
C6_TrunkZero ==
    pc = "cleaned" =>
        /\ \A n \in 1..Len(FindPhones(value, 1)) :
              LET d == DigitsOnly(FindPhones(value, 1)[n])
              IN  (Len(d) = 9 /\ d[1] \in {"2","3","4","5","6","7","8","9"})
                     => IsElement(<<"0">> \o d, Val("Phone"))
        /\ value \in {PhoneNine, PhoneDashed} => Val("Phone") = Phone0712

\* the grouped nine-digit number has been cleaned to its trunk form
C6_Witness ==
    /\ pc = "cleaned"
    /\ value = PhoneDashed
    /\ Val("Phone") = Phone0712

(***************************************************************************)
(* C7.                                                                     *)
(***************************************************************************)
\* C7: a labelled field never holds the empty string, and a field whose
\* label occurs with nothing but whitespace between it and the next label
\* of another field (or the end of the span) holds "NA" once the loop has
\* passed it.
C7_EmptyCapture ==
    pc \in {"fields", "returned"} =>
        \A n \in Labelled :
            /\ Val(Fields[n].key) # <<>>
            /\ (/\ fidx > n
                /\ Occurs(text_block, Fields[n].label, TRUE) # {}
                /\ Between(text_block, n) = <<>>)
                  => Val(Fields[n].key) = NA

\* the span "Fax: " has been extracted and Fax holds the sentinel
C7_Witness ==
    /\ pc = "returned"
    /\ block = SpanFax
    /\ Occurs(text_block, LblFax, TRUE) # {}
    /\ Val("Fax") = NA

(***************************************************************************)
(* C8.                                                                     *)
(***************************************************************************)
\* C8 as stated: School Name is the trimmed text before the first label
\* written in its own letter case; and when there is no such label, School
\* Name is the whole span and the nine other fields hold "NA".
C8_NameAndNoLabel ==
    pc = "returned" =>
        /\ Val("School Name") = Strip(Slice(text_block, 1, FirstLabel(text_block)))
        /\ ~SomeLabel(text_block, FALSE) =>
              /\ Val("School Name") = text_block
              /\ \A n \in Labelled : Val(Fields[n].key) = NA

\* C8 as amended: School Name is the trimmed text before the first label
\* written in its own letter case, the whole normalized span when there is
\* none; and when no label occurs in any letter case, the nine other fields
\* hold "NA".
C8_NameCaseSensitive ==
    pc = "returned" =>
        /\ Val("School Name") = Strip(Slice(text_block, 1, FirstLabel(text_block)))
        /\ ~SomeLabel(text_block, FALSE) => Val("School Name") = text_block
        /\ ~SomeLabel(text_block, TRUE) =>
              \A n \in Labelled : Val(Fields[n].key) = NA

\* a span that holds a label only in another letter case has been
\* extracted: the name is the whole span
C8_Witness ==
    /\ pc = "returned"
    /\ ~SomeLabel(text_block, FALSE)
    /\ SomeLabel(text_block, TRUE)
    /\ Len(text_block) > 0
    /\ Val("School Name") = text_block

(***************************************************************************)
(* C9.                                                                     *)
(***************************************************************************)
\* the occurrences of lit in t that start on a word boundary
WordOccurs(t, lit, ic) == {p \in Occurs(t, lit, ic) : WordBoundary(t, p)}

\* C9: a label that occurs only as the tail of a longer word starts no
\* capture (its field holds "NA"), and School Name ends at the first label
\* that starts on a word boundary, not before.
C9_WordBoundary ==
    pc = "returned" =>
        /\ \A n \in Labelled :
              WordOccurs(text_block, Fields[n].label, TRUE) = {}
                 => Val(Fields[n].key) = NA
        /\ Val("School Name") =
              Strip(Slice(text_block, 1,
                  SetMin(UNION {WordOccurs(text_block, Fields[n].label, FALSE) :
                                   n \in Labelled}
                         \cup {Len(text_block) + 1})))

(***************************************************************************)
(* C10.                                                                    *)
(***************************************************************************)
\* the hyphens of t that a line feed and a lowercase letter follow at once
LowerWraps(t) ==
    {h \in 1..(Len(t) - 2) :
        t[h] = "-" /\ t[h + 1] = "\n" /\ t[h + 2] \in LowerChars}

\* C10 as stated: a hyphen is removed only when a line break and a lowercase
\* letter follow it at once; a text without such a hyphen only has its
\* whitespace collapsed.
C10_LowercaseOnly ==
    (pc = "split" /\ LowerWraps(raw_text) = {})
        => full_text = NormalizeWhitespace(raw_text)

\* the hyphen at h follows a word character and is followed by whitespace
\* that holds a line feed and then by a word character
Wrapped(t, h) ==
    /\ h > 1
    /\ t[h] = "-"
    /\ IsWord(t[h - 1])
    /\ \E q \in (h + 2)..Len(t) :
          /\ IsWord(t[q])
          /\ \A k \in (h + 1)..(q - 1) : IsSpace(t[k])
          /\ \E k \in (h + 1)..(q - 1) : t[k] = "\n"

\* the word character that closes the wrap of the hyphen at h
WrapClose(t, h) ==
    CHOOSE q \in (h + 2)..Len(t) :
        IsWord(t[q]) /\ \A k \in (h + 1)..(q - 1) : IsSpace(t[k])

\* the wrap at h is joined: no joined wrap before it closes on the character
\* that opens it
RECURSIVE Joined(_, _)
Joined(t, h) ==
    /\ Wrapped(t, h)
    /\ ~\E g \in 1..(h - 1) :
          Wrapped(t, g) /\ WrapClose(t, g) = h - 1 /\ Joined(t, g)

\* the positions of t a joined wrap removes: the hyphen and the whitespace
Removed(t) ==
    UNION {h..(WrapClose(t, h) - 1) : h \in {g \in 1..Len(t) : Joined(t, g)}}

\* t without the positions of R, from position p on
RECURSIVE Without(_, _, _)
Without(t, R, p) ==
    IF p > Len(t) THEN <<>>
    ELSE IF p \in R THEN Without(t, R, p + 1)
    ELSE <<t[p]>> \o Without(t, R, p + 1)

\* the whitespace characters of t that follow a whitespace character
InsideRun(t) == {p \in 2..Len(t) : IsSpace(t[p]) /\ IsSpace(t[p - 1])}

\* t with each run of whitespace collapsed to one space
Collapsed(t) ==
    LET u == Without(t, InsideRun(t), 1)
    IN  [p \in 1..Len(u) |-> IF IsSpace(u[p]) THEN " " ELSE u[p]]

\* C10 as amended: scanning from the left without overlap, a hyphen is
\* removed with the whitespace after it whenever it follows a word character
\* and is followed by whitespace that holds a line break and then by a word
\* character of any kind; every other hyphen is kept, and every run of
\* whitespace is then collapsed to one space.
C10_AnyWordCharacter ==
    /\ pc = "whitespace" => full_text = Without(raw_text, Removed(raw_text), 1)
    /\ pc = "split" =>
          full_text = Collapsed(Without(raw_text, Removed(raw_text), 1))

\* a word wrapped before an uppercase letter has been rejoined
C10_Witness ==
    /\ pc = "split"
    /\ raw_text = WrapUpper
    /\ full_text = <<"w","o","R","d">>

====
